---- MODULE Spec2Model ----
(***************************************************************************)
(* Model of the experiment harness of hantoine/ml-course-project:          *)
(*   utils/training.py            the evaluation orchestrator, the result  *)
(*                                store and the results aggregator         *)
(*   classification/datasets      the dataset providers                    *)
(*   regression/models/adaboost   one model adapter                        *)
(* Four state machines share the variables below; each has its own         *)
(* specification and leaves the variables of the others untouched.         *)
(***************************************************************************)
EXTENDS Integers, Sequences, FiniteSets, TLC

VARIABLES
    \* ---- orchestrator (train_all_models_on_all_datasets)
    tuning,       \* results/<dataset>/<model>/tuning.json, per pair
    evaluation,   \* results/<dataset>/<model>/evaluation.json, per pair
    weights,      \* does results/Cifar10CustomModel-weights.pkl exist
    pc,           \* "load" | "model" | "done" | "halted"
    di,           \* index of the dataset of the outer loop
    mi,           \* index of the model of the inner loop
    status,       \* outcome of each pair in this run
    last,         \* what the last iteration of the inner loop did
    \* ---- one pair's evaluation.json over successive runs
    stored,       \* content of the pair's evaluation.json
    maximized,    \* dataset.is_metric_maximized
    calls,        \* the results presented to save_evaluation_results so far
    wrote,        \* did the last call take the write branch
    prevRun,      \* the tuning.json the previous run read, and whether it saved
    runs,         \* the runs that have processed the pair
    \* ---- dataset providers
    files,        \* the files present in workdir
    dpc,          \* "idle" | "parse" | "returned" | "raised"
    cls,          \* the dataset class whose get() is running or ran last
    before,       \* the files present when the running get() was called
    downloaded,   \* the files the running get() downloaded
    result,       \* what get() returned
    \* ---- results aggregator
    resultFiles,  \* the <<dataset dir, model dir>> holding an evaluation.json
    table         \* what get_results_table returned

orchVars == <<tuning, evaluation, weights, pc, di, mi, status, last>>
saveVars == <<stored, maximized, calls, wrote, prevRun, runs>>
dataVars == <<files, dpc, cls, before, downloaded, result>>
tableVars == <<resultFiles, table>>
vars == <<orchVars, saveVars, dataVars, tableVars>>

\* an absent file
NoFile == [exists |-> FALSE]

(***************************************************************************)
(* Bounds of the model.                                                    *)
(***************************************************************************)
MaxValScore == 3
MaxCalls == 3
MaxRows == 4
MaxNameLen == 2
MaxFiles == 2

(***************************************************************************)
(* Inputs.                                                                 *)
(***************************************************************************)
Hyperparams == {"hpA", "hpB"}
ValScores == 1..MaxValScore
TestScores == {70, 90}
\* seconds spent from start_time to the end of the training phase, and in
\* the evaluation phase
FitDurations == {100, 200}
EvalDurations == {50, 100}

max_training_time == 180

TuningRecords ==
    [hp : Hyperparams, score : ValScores, n_trials : {10}]

(***************************************************************************)
(* save_evaluation_results                                                 *)
(***************************************************************************)
\* the record written at lines 104-112
results(tuning_results, score, train_time, evaluation_time, metric) ==
    [hp |-> tuning_results.hp,
     score |-> score,
     tuning_n_trials |-> tuning_results.n_trials,
     val_score |-> tuning_results.score,
     train_time |-> train_time,
     evaluation_time |-> evaluation_time,
     metric_used |-> metric]

better_val_results_ge(prev_results, is_metric_maximized, tuning_results) ==
    IF prev_results = NoFile
    THEN TRUE
    ELSE IF is_metric_maximized
         THEN tuning_results.score >= prev_results.val_score
         ELSE tuning_results.score <= prev_results.val_score

\* lines 93-101: FileNotFoundError means better, otherwise a strict comparison
better_val_results(prev_results, is_metric_maximized, tuning_results) ==
    IF prev_results = NoFile
    THEN TRUE
    ELSE IF is_metric_maximized
         THEN tuning_results.score > prev_results.val_score
         ELSE tuning_results.score < prev_results.val_score

save_evaluation_results_keep_first(prev_results, is_metric_maximized, metric, tuning_results, score, train_time, evaluation_time) ==
    [file |-> IF prev_results = NoFile
              THEN results(tuning_results, score, train_time, evaluation_time, metric)
              ELSE prev_results,
     wrote |-> prev_results = NoFile]

\* the file after the call, and whether the write branch (lines 103-114) ran
save_evaluation_results(prev_results, is_metric_maximized, metric, tuning_results, score, train_time, evaluation_time) ==
    LET better == better_val_results(prev_results, is_metric_maximized, tuning_results)
    IN  [file |-> IF better
                  THEN results(tuning_results, score, train_time, evaluation_time, metric)
                  ELSE prev_results,
         wrote |-> better]

(***************************************************************************)
(* The orchestrator: train_all_models_on_all_datasets and evaluate_model.  *)
(***************************************************************************)
Datasets == <<"ClfDataset", "RegDataset">>
Models == <<"Cifar10CustomModel", "AdaBoostModel", "OtherModel">>
DatasetSet == {Datasets[i] : i \in 1..Len(Datasets)}
ModelSet == {Models[i] : i \in 1..Len(Models)}

is_metric_maximized(d) == d = "ClfDataset"
metric(d) == IF d = "ClfDataset" THEN "accuracy" ELSE "mse"

\* the positional arguments evaluate_model passes to build_estimator (line 60)
BuildCallArgs == 2
\* the positional parameters AdaBoostModel.build_estimator takes
AdaBoostBuildParams == 1
\* the parameters of the adapters that follow the contract of the model adapter
ContractBuildParams == 2

BuildParams(m) ==
    IF m = "AdaBoostModel" THEN AdaBoostBuildParams ELSE ContractBuildParams

\* Python raises TypeError when the argument count differs
BuildRaisesTypeError(m) == BuildParams(m) # BuildCallArgs

is_cifar_model(m) == m = "Cifar10CustomModel"

\* line 63: restore the weights instead of training
Restores(m) == is_cifar_model(m) /\ weights

ElapsedFitOnly(fit, ev) == fit

\* what runs under the deadline: evaluate_model as a whole (line 21)
Elapsed(fit, ev) == fit + ev

\* set_timeout raises TimeoutError when the wrapped call outlives the deadline
TimeoutRaised(elapsed) == elapsed > max_training_time

CurD == Datasets[di]
CurM == Models[mi]

NoLast == [kind |-> "NONE", d |-> "", m |-> "", fit |-> 0, ev |-> 0, built |-> FALSE]

\* the tuning.json files a run may find: none, or one record
RunTuningRecords == {t \in TuningRecords : t.hp = "hpA" /\ t.score = 2}

\* the evaluation.json files earlier runs may have left, with a validation
\* score below or above the one of the tuning.json of this run
PriorResults(d) ==
    {results(t, 70, 100, 50, metric(d)) :
        t \in {u \in TuningRecords : u.hp = "hpB" /\ u.score \in {1, 3}}}

\* the variables of the other state machines, at rest
OrchIdle ==
    /\ tuning = [p \in DatasetSet \X ModelSet |-> NoFile]
    /\ evaluation = [p \in DatasetSet \X ModelSet |-> NoFile]
    /\ weights = FALSE
    /\ pc = "done"
    /\ di = 1
    /\ mi = 1
    /\ status = [p \in DatasetSet \X ModelSet |-> "PENDING"]
    /\ last = NoLast

NoRun == [tuning |-> NoFile, saved |-> FALSE]

SaveIdle ==
    /\ stored = NoFile
    /\ maximized = TRUE
    /\ calls = <<>>
    /\ wrote = FALSE
    /\ prevRun = NoRun
    /\ runs = 0

NoResult == [shape |-> "none"]

DataIdle ==
    /\ files = {}
    /\ dpc = "idle"
    /\ cls = ""
    /\ before = {}
    /\ downloaded = {}
    /\ result = NoResult

NoTable == [called |-> FALSE, raised |-> "", rows |-> <<>>]

TableIdle ==
    /\ resultFiles = {}
    /\ table = NoTable

Init ==
    /\ tuning \in [DatasetSet \X ModelSet -> {NoFile} \cup RunTuningRecords]
    /\ evaluation \in [DatasetSet \X ModelSet -> {NoFile} \cup UNION {PriorResults(d) : d \in DatasetSet}]
    /\ \A d \in DatasetSet, m \in ModelSet :
          /\ evaluation[d, m] # NoFile => evaluation[d, m] \in PriorResults(d)
          /\ BuildRaisesTypeError(m) => evaluation[d, m] = NoFile
    /\ weights \in BOOLEAN
    /\ (\E d \in DatasetSet : evaluation[d, "Cifar10CustomModel"] # NoFile) => weights
    /\ pc = "load"
    /\ di = 1
    /\ mi = 1
    /\ status = [p \in DatasetSet \X ModelSet |-> "PENDING"]
    /\ last = NoLast
    /\ SaveIdle
    /\ DataIdle
    /\ TableIdle

\* `continue` (and the fall through at the end of the body): the next model,
\* then the next dataset, then the end of the run
Continue ==
    IF mi < Len(Models)
    THEN /\ mi' = mi + 1
         /\ di' = di
         /\ pc' = "model"
    ELSE IF di < Len(Datasets)
         THEN /\ mi' = 1
              /\ di' = di + 1
              /\ pc' = "load"
         ELSE /\ mi' = mi
              /\ di' = di
              /\ pc' = "done"

\* an exception nothing catches ends the run
Propagate ==
    /\ pc' = "halted"
    /\ UNCHANGED <<di, mi>>

Outcome(kind, fit, ev, built) ==
    /\ status' = [status EXCEPT ![CurD, CurM] = kind]
    /\ last' = [kind |-> kind, d |-> CurD, m |-> CurM, fit |-> fit, ev |-> ev, built |-> built]

\* line 24: dataset.get() returns the splits
LoadDataset ==
    /\ UNCHANGED <<saveVars, dataVars, tableVars>>
    /\ pc = "load"
    /\ pc' = "model"
    /\ UNCHANGED <<tuning, evaluation, weights, di, mi, status, last>>

\* line 24: dataset.get() raises (download or parse failure); nothing catches it
LoadDatasetFails ==
    /\ UNCHANGED <<saveVars, dataVars, tableVars>>
    /\ pc = "load"
    /\ Propagate
    /\ UNCHANGED <<tuning, evaluation, weights, status, last>>

SkipNoTuning_Uncaught ==
    /\ UNCHANGED <<saveVars, dataVars, tableVars>>
    /\ pc = "model"
    /\ tuning[CurD, CurM] = NoFile
    /\ Outcome("SKIPPED_NO_TUNING", 0, 0, FALSE)
    /\ Propagate
    /\ UNCHANGED <<tuning, evaluation, weights>>

\* lines 28-32: get_tuning_results raises FileNotFoundError
SkipNoTuning ==
    /\ UNCHANGED <<saveVars, dataVars, tableVars>>
    /\ pc = "model"
    /\ tuning[CurD, CurM] = NoFile
    /\ Outcome("SKIPPED_NO_TUNING", 0, 0, FALSE)
    /\ Continue
    /\ UNCHANGED <<tuning, evaluation, weights>>

\* line 60 with an adapter whose build_estimator takes other parameters:
\* TypeError, which neither except clause catches
BuildFails ==
    /\ UNCHANGED <<saveVars, dataVars, tableVars>>
    /\ pc = "model"
    /\ tuning[CurD, CurM] # NoFile
    /\ BuildRaisesTypeError(CurM)
    /\ Outcome("BUILD_ERROR", 0, 0, TRUE)
    /\ Propagate
    /\ UNCHANGED <<tuning, evaluation, weights>>

\* the weights file after a training phase that ran to its end (lines 69-72)
WeightsAfterFit(m) == weights \/ is_cifar_model(m)

TimedOut_Break(fit, ev) ==
    /\ UNCHANGED <<saveVars, dataVars, tableVars>>
    /\ pc = "model"
    /\ tuning[CurD, CurM] # NoFile
    /\ ~BuildRaisesTypeError(CurM)
    /\ TimeoutRaised(Elapsed(fit, ev))
    /\ weights' = IF TimeoutRaised(fit) THEN weights ELSE WeightsAfterFit(CurM)
    /\ Outcome("TIMED_OUT", fit, ev, TRUE)
    /\ IF di < Len(Datasets)
       THEN mi' = 1 /\ di' = di + 1 /\ pc' = "load"
       ELSE mi' = mi /\ di' = di /\ pc' = "done"
    /\ UNCHANGED <<tuning, evaluation>>

\* lines 34-40: the deadline elapses inside evaluate_model
TimedOut(fit, ev) ==
    /\ UNCHANGED <<saveVars, dataVars, tableVars>>
    /\ pc = "model"
    /\ tuning[CurD, CurM] # NoFile
    /\ ~BuildRaisesTypeError(CurM)
    /\ TimeoutRaised(Elapsed(fit, ev))
    /\ weights' = IF TimeoutRaised(fit) THEN weights ELSE WeightsAfterFit(CurM)
    /\ Outcome("TIMED_OUT", fit, ev, TRUE)
    /\ Continue
    /\ UNCHANGED <<tuning, evaluation>>

OutOfMemory_Propagates(inFit) ==
    /\ UNCHANGED <<saveVars, dataVars, tableVars>>
    /\ pc = "model"
    /\ tuning[CurD, CurM] # NoFile
    /\ ~BuildRaisesTypeError(CurM)
    /\ inFit => ~Restores(CurM)
    /\ weights' = IF inFit THEN weights ELSE WeightsAfterFit(CurM)
    /\ Outcome("OOM", 0, 0, TRUE)
    /\ Propagate
    /\ UNCHANGED <<tuning, evaluation>>

\* lines 49-50: MemoryError out of estimator.fit (inFit) or out of the
\* evaluation phase, raised before the deadline
OutOfMemory(inFit) ==
    /\ UNCHANGED <<saveVars, dataVars, tableVars>>
    /\ pc = "model"
    /\ tuning[CurD, CurM] # NoFile
    /\ ~BuildRaisesTypeError(CurM)
    /\ inFit => ~Restores(CurM)
    /\ weights' = IF inFit THEN weights ELSE WeightsAfterFit(CurM)
    /\ Outcome("OOM", 0, 0, TRUE)
    /\ Continue
    /\ UNCHANGED <<tuning, evaluation>>

\* lines 34-48: evaluate_model returns in time and the result goes to
\* save_evaluation_results
EvaluateAndSave(fit, ev, score) ==
    /\ UNCHANGED <<saveVars, dataVars, tableVars>>
    /\ pc = "model"
    /\ tuning[CurD, CurM] # NoFile
    /\ ~BuildRaisesTypeError(CurM)
    /\ ~TimeoutRaised(Elapsed(fit, ev))
    /\ LET train_time == IF Restores(CurM) THEN -1 ELSE fit
           saved == save_evaluation_results(evaluation[CurD, CurM],
                        is_metric_maximized(CurD), metric(CurD),
                        tuning[CurD, CurM], score, train_time, ev)
       IN  /\ evaluation' = [evaluation EXCEPT ![CurD, CurM] = saved.file]
           /\ Outcome(IF saved.wrote THEN "PERSISTED" ELSE "DISCARDED", fit, ev, TRUE)
    /\ weights' = WeightsAfterFit(CurM)
    /\ Continue
    /\ UNCHANGED tuning

Next ==
    \/ LoadDataset
    \/ LoadDatasetFails
    \/ SkipNoTuning
    \/ BuildFails
    \/ \E fit \in FitDurations, ev \in EvalDurations : TimedOut(fit, ev)
    \/ \E inFit \in BOOLEAN : OutOfMemory(inFit)
    \/ \E fit \in FitDurations, ev \in EvalDurations, score \in TestScores :
          EvaluateAndSave(fit, ev, score)

Spec == Init /\ [][Next]_vars

(***************************************************************************)
(* Properties of the orchestrator.                                         *)
(***************************************************************************)
Pairs == DatasetSet \X ModelSet

\* where the loops stand once the pair at indices i, j is left behind
AfterPair(i, j) ==
    IF j < Len(Models) THEN <<i, j + 1, "model">>
    ELSE IF i < Len(Datasets) THEN <<i + 1, 1, "load">>
    ELSE <<i, j, "done">>

OthersKeepStatus ==
    \A p \in Pairs : p # <<CurD, CurM>> => status'[p] = status[p]

\* C2: a timeout aborts the current pair only: no evaluation.json is written
\* or changed, the loops move on to the next model of the dataset (to the
\* next dataset after the last model), and a pair that timed out keeps that
\* outcome to the end of the run: the loops never come back to it.
C2_TimeoutAbortsOnlyThatPair ==
    [][/\ (pc = "model" /\ status'[CurD, CurM] = "TIMED_OUT") =>
             /\ evaluation' = evaluation
             /\ tuning' = tuning
             /\ <<di', mi', pc'>> = AfterPair(di, mi)
             /\ OthersKeepStatus
       /\ \A p \in Pairs : status[p] = "TIMED_OUT" => status'[p] = "TIMED_OUT"
       /\ pc' = "model" => status'[Datasets[di'], Models[mi']] = "PENDING"]_vars

C2_Witness ==
    /\ status["ClfDataset", "Cifar10CustomModel"] = "TIMED_OUT"
    /\ evaluation["ClfDataset", "Cifar10CustomModel"] # NoFile
    /\ status["ClfDataset", "AdaBoostModel"] # "PENDING"
    /\ status["ClfDataset", "OtherModel"] = "TIMED_OUT"
    /\ status["RegDataset", "Cifar10CustomModel"] # "PENDING"

Timed == {"TIMED_OUT", "PERSISTED", "DISCARDED"}

\* C3 as stated: a pair takes the timed-out path exactly when its training
\* runs longer than max_training_time.
C3_TimeoutIffTrainingExceeds ==
    last.kind \in Timed =>
        (last.kind = "TIMED_OUT" <=> last.fit > max_training_time)

\* C3, amended: a pair takes the timed-out path exactly when the whole
\* evaluate_model call, training phase plus evaluation phase, runs longer
\* than max_training_time; a pair whose call returns within it is saved.
C3_TimeoutIffEvaluateModelExceeds ==
    last.kind \in Timed =>
        /\ last.kind = "TIMED_OUT" <=> last.fit + last.ev > max_training_time
        /\ status[last.d, last.m] = last.kind

C3_Witness ==
    /\ last.kind = "TIMED_OUT"
    /\ last.fit <= max_training_time
    /\ last.fit + last.ev > max_training_time

\* C4: with tuning.json absent the only thing the loop does for the pair is
\* to skip it: no estimator is built or trained, no file changes, and the
\* loops move on; the run does not stop.
C4_MissingTuningSkipsPair ==
    [][(pc = "model" /\ tuning[CurD, CurM] = NoFile) =>
          /\ status'[CurD, CurM] = "SKIPPED_NO_TUNING"
          /\ ~last'.built
          /\ evaluation' = evaluation
          /\ weights' = weights
          /\ <<di', mi', pc'>> = AfterPair(di, mi)
          /\ pc' # "halted"
          /\ OthersKeepStatus]_vars

C4_Witness ==
    /\ status["ClfDataset", "Cifar10CustomModel"] = "SKIPPED_NO_TUNING"
    /\ status["ClfDataset", "AdaBoostModel"] = "SKIPPED_NO_TUNING"
    /\ status["ClfDataset", "OtherModel"] \in {"PERSISTED", "DISCARDED"}
    /\ evaluation["ClfDataset", "Cifar10CustomModel"] = NoFile

\* C5: a MemoryError is caught: no evaluation.json is written or changed for
\* the pair, the loops move on to the next pair, and a run that reaches its
\* end has processed every pair.
C5_OutOfMemoryIsCaught ==
    [][/\ (pc = "model" /\ status'[CurD, CurM] = "OOM") =>
             /\ evaluation' = evaluation
             /\ <<di', mi', pc'>> = AfterPair(di, mi)
             /\ pc' # "halted"
             /\ OthersKeepStatus
       /\ pc' = "done" => \A p \in Pairs : status'[p] # "PENDING"]_vars

C5_Witness ==
    /\ status["ClfDataset", "Cifar10CustomModel"] = "OOM"
    /\ status["RegDataset", "OtherModel"] = "OOM"
    /\ pc = "done"
    /\ \A p \in Pairs : status[p] # "PENDING"

\* C8: the build step of evaluate_model returns an estimator for every model
\* adapter: no pair ends in an error of build_estimator.
C8_EveryAdapterBuilds ==
    \A p \in Pairs : status[p] # "BUILD_ERROR"

(***************************************************************************)
(* One pair's evaluation.json over successive runs of the orchestrator:    *)
(* each run either reaches save_evaluation_results or leaves the pair      *)
(* before it.                                                              *)
(***************************************************************************)
InitSave ==
    /\ OrchIdle
    /\ DataIdle
    /\ TableIdle
    /\ stored = NoFile
    /\ maximized \in BOOLEAN
    /\ calls = <<>>
    /\ wrote = FALSE
    /\ prevRun = NoRun
    /\ runs = 0

PairMetric == IF maximized THEN "accuracy" ELSE "mse"

\* lines 34-43: evaluate_model returned in time; save_evaluation_results runs
RunSaves(t, score, train_time, evaluation_time) ==
    /\ UNCHANGED <<orchVars, dataVars, tableVars>>
    /\ runs < MaxCalls
    /\ LET saved == save_evaluation_results(stored, maximized, PairMetric,
                                            t, score, train_time, evaluation_time)
       IN  /\ stored' = saved.file
           /\ wrote' = saved.wrote
    /\ calls' = Append(calls, results(t, score, train_time, evaluation_time, PairMetric))
    /\ prevRun' = [tuning |-> t, saved |-> TRUE]
    /\ runs' = runs + 1
    /\ UNCHANGED maximized

\* lines 30-32, 38-40, 49-50: the run leaves the pair before line 42
RunSkips(t) ==
    /\ UNCHANGED <<orchVars, dataVars, tableVars>>
    /\ runs < MaxCalls
    /\ prevRun' = [tuning |-> t, saved |-> FALSE]
    /\ runs' = runs + 1
    /\ wrote' = FALSE
    /\ UNCHANGED <<stored, maximized, calls>>

\* the durations of the calls of evaluate_model that return before the deadline
InTime == {x \in FitDurations \X EvalDurations : ~TimeoutRaised(Elapsed(x[1], x[2]))}

NextSave ==
    \/ \E t \in TuningRecords, score \in TestScores, x \in InTime :
          RunSaves(t, score, x[1], x[2])
    \/ \E t \in {NoFile} \cup TuningRecords : RunSkips(t)

SpecSave == InitSave /\ [][NextSave]_vars

\* v is strictly better than w for the pair's metric
StrictlyBetter(v, w) == IF maximized THEN v > w ELSE v < w

\* C1: a call of save_evaluation_results writes the file exactly when there
\* was no file or the new validation score is strictly better than the
\* stored one; a call that does not write leaves the file as it was.
C1_OverwriteIffStrictlyBetter ==
    [][calls' # calls =>
          LET new == calls'[Len(calls')]
          IN  /\ wrote' <=> (stored = NoFile \/ StrictlyBetter(new.val_score, stored.val_score))
              /\ wrote' => stored' = new
              /\ ~wrote' => stored' = stored]_vars

C1_Witness ==
    /\ Len(calls) = 3
    /\ calls[2].val_score = calls[1].val_score
    /\ calls[2] # calls[1]
    /\ StrictlyBetter(calls[3].val_score, calls[1].val_score)
    /\ stored = calls[3]
    /\ wrote

\* the first call that presented the best validation score so far
IsFirstBest(i) ==
    /\ \A j \in 1..Len(calls) : ~StrictlyBetter(calls[j].val_score, calls[i].val_score)
    /\ \A j \in 1..(i - 1) : calls[j].val_score # calls[i].val_score

StoredIsFirstBest ==
    IF calls = <<>>
    THEN stored = NoFile
    ELSE \E i \in 1..Len(calls) : IsFirstBest(i) /\ stored = calls[i]

NeverWorse ==
    stored # NoFile =>
        /\ stored' # NoFile
        /\ ~StrictlyBetter(stored.val_score, stored'.val_score)

\* C10 as stated: the stored validation score never gets worse, the file is
\* the result of the first call that presented the best validation score,
\* and a run that reads the tuning results the previous run read changes no
\* evaluation.json.
C10_BestSoFarAndRerunChangesNothing ==
    [][/\ NeverWorse
       /\ StoredIsFirstBest'
       /\ (runs >= 1 /\ runs' = runs + 1 /\ prevRun'.tuning = prevRun.tuning) =>
             stored' = stored]_vars

\* C10, amended: as above, and a run that reads the tuning results the
\* previous run read changes no evaluation.json of a pair for which the
\* previous run reached save_evaluation_results.
C10_BestSoFarAndRerunAfterSaveChangesNothing ==
    [][/\ NeverWorse
       /\ StoredIsFirstBest'
       /\ (runs >= 1 /\ runs' = runs + 1 /\ prevRun'.tuning = prevRun.tuning
           /\ prevRun.saved) =>
             stored' = stored]_vars

C10_Witness ==
    /\ Len(calls) = 2
    /\ runs = 3
    /\ prevRun.saved
    /\ calls[1].val_score = calls[2].val_score
    /\ calls[1].score # calls[2].score
    /\ stored = calls[1]

(***************************************************************************)
(* The dataset providers: Dataset.download and the get() of each class.    *)
(***************************************************************************)
DatasetClasses ==
    {"DefaultCreditCardDataset", "StatlogAustralianDataset", "StatlogGermanDataset",
     "AdultDataset", "SteelPlatesFaultsDataset", "SeismicBumps"}

\* the class attribute filename, or filenames
filenames(c) ==
    CASE c = "DefaultCreditCardDataset" -> <<"default of credit card clients.xls">>
      [] c = "StatlogAustralianDataset" -> <<"australian.dat">>
      [] c = "StatlogGermanDataset" -> <<"german.data-numeric">>
      [] c = "AdultDataset" -> <<"adult.data", "adult.test">>
      [] c = "SteelPlatesFaultsDataset" -> <<"Faults.NNA", "Faults27x7_var">>
      [] c = "SeismicBumps" -> <<"seismic-bumps.arff">>

Declared(c) == {filenames(c)[i] : i \in 1..Len(filenames(c))}

FirstFiles(c, k) == {filenames(c)[i] : i \in 1..k}

\* the file whose presence get() tests with isfile before it downloads
CheckedFile(c) == filenames(c)[1]

\* the files the parsing code of get() opens
ReadFiles(c) == Declared(c)

\* the classes whose get() ends with train_test_split
SplitsAtRandom(c) ==
    c \in {"DefaultCreditCardDataset", "StatlogAustralianDataset", "StatlogGermanDataset"}

\* the classes whose get() returns the parsed table itself
ReturnsFrame(c) == c \in {"SteelPlatesFaultsDataset", "SeismicBumps"}

test_size_percent == 25

\* sklearn's train_test_split: n_test = ceil(test_size * n), n_train = n - n_test
n_test(n) == (n * test_size_percent + 99) \div 100

Rows(f, from, to) == {<<f, i>> : i \in from..to}

InitData ==
    /\ OrchIdle
    /\ SaveIdle
    /\ TableIdle
    /\ files = {}
    /\ dpc = "idle"
    /\ cls = ""
    /\ before = {}
    /\ downloaded = {}
    /\ result = NoResult

Called(c) ==
    /\ dpc # "parse"
    /\ cls' = c
    /\ before' = files
    /\ result' = NoResult

\* isfile(dataset_path) holds: nothing is downloaded
GetCached(c) ==
    /\ UNCHANGED <<orchVars, saveVars, tableVars>>
    /\ Called(c)
    /\ CheckedFile(c) \in files
    /\ downloaded' = {}
    /\ dpc' = "parse"
    /\ UNCHANGED files

\* isfile(dataset_path) fails: download() fetches every declared resource
GetDownloads(c) ==
    /\ UNCHANGED <<orchVars, saveVars, tableVars>>
    /\ Called(c)
    /\ CheckedFile(c) \notin files
    /\ downloaded' = Declared(c)
    /\ files' = files \cup Declared(c)
    /\ dpc' = "parse"

\* urlretrieve raises after k resources were fetched; get() ends there
GetDownloadFails(c, k) ==
    /\ UNCHANGED <<orchVars, saveVars, tableVars>>
    /\ Called(c)
    /\ CheckedFile(c) \notin files
    /\ k < Len(filenames(c))
    /\ downloaded' = FirstFiles(c, k)
    /\ files' = files \cup FirstFiles(c, k)
    /\ dpc' = "raised"

\* a file the parsing code opens is not there: FileNotFoundError
ParseFileMissing ==
    /\ UNCHANGED <<orchVars, saveVars, tableVars>>
    /\ dpc = "parse"
    /\ ~(ReadFiles(cls) \subseteq files)
    /\ dpc' = "raised"
    /\ UNCHANGED <<files, cls, before, downloaded, result>>

\* the table has n rows; train_test_split holds out the rows numbered held
ParseAndSplit(n, held) ==
    /\ UNCHANGED <<orchVars, saveVars, tableVars>>
    /\ dpc = "parse"
    /\ SplitsAtRandom(cls)
    /\ ReadFiles(cls) \subseteq files
    /\ LET all == Rows(CheckedFile(cls), 1, n)
           test == {<<CheckedFile(cls), i>> : i \in held}
       IN  IF n - n_test(n) = 0
           THEN \* train_test_split refuses an empty train set: ValueError
                /\ held = {}
                /\ dpc' = "raised"
                /\ UNCHANGED result
           ELSE /\ held \subseteq 1..n
                /\ Cardinality(held) = n_test(n)
                /\ result' = [shape |-> "split", parsed |-> all,
                              train |-> all \ test, test |-> test]
                /\ dpc' = "returned"
    /\ UNCHANGED <<files, cls, before, downloaded>>

\* AdultDataset.get: adult.data is the train part, adult.test less its first
\* line the test part
ParseAdult(n1, n2) ==
    /\ UNCHANGED <<orchVars, saveVars, tableVars>>
    /\ dpc = "parse"
    /\ cls = "AdultDataset"
    /\ ReadFiles(cls) \subseteq files
    /\ LET train == Rows("adult.data", 1, n1)
           test == Rows("adult.test", 2, n2)
       IN  result' = [shape |-> "split", parsed |-> train \cup test,
                      train |-> train, test |-> test]
    /\ dpc' = "returned"
    /\ UNCHANGED <<files, cls, before, downloaded>>

\* SteelPlatesFaultsDataset.get and SeismicBumps.get return df
ParseFrame(n) ==
    /\ UNCHANGED <<orchVars, saveVars, tableVars>>
    /\ dpc = "parse"
    /\ ReturnsFrame(cls)
    /\ ReadFiles(cls) \subseteq files
    /\ result' = [shape |-> "frame", parsed |-> Rows(CheckedFile(cls), 1, n)]
    /\ dpc' = "returned"
    /\ UNCHANGED <<files, cls, before, downloaded>>

NextData ==
    \/ \E c \in DatasetClasses : GetCached(c)
    \/ \E c \in DatasetClasses : GetDownloads(c)
    \/ \E c \in DatasetClasses, k \in 0..1 : GetDownloadFails(c, k)
    \/ ParseFileMissing
    \/ \E n \in 1..MaxRows, held \in SUBSET (1..MaxRows) : ParseAndSplit(n, held)
    \/ \E n1 \in 1..MaxRows, n2 \in 1..MaxRows : ParseAdult(n1, n2)
    \/ \E n \in 1..MaxRows : ParseFrame(n)

SpecData == InitData /\ [][NextData]_vars

\* C6: whatever the class, get() returns a train part and a test part that
\* are disjoint, that together hold every parsed row, and whose test part
\* is a quarter of the rows, to within one row.
C6_GetReturnsQuarterSplit ==
    dpc = "returned" =>
        /\ result.shape = "split"
        /\ result.train \cap result.test = {}
        /\ Cardinality(result.train) + Cardinality(result.test) = Cardinality(result.parsed)
        /\ 4 * Cardinality(result.test) - Cardinality(result.parsed) \in -3..3

\* C7: get() downloads nothing when every declared file was there, downloads
\* every declared resource when one was absent, and so starts parsing with
\* every declared file present.
C7_ParsingFindsEveryDeclaredFile ==
    dpc = "parse" =>
        /\ Declared(cls) \subseteq before => downloaded = {}
        /\ ~(Declared(cls) \subseteq before) => downloaded = Declared(cls)
        /\ Declared(cls) \subseteq files

(***************************************************************************)
(* The results aggregator: get_results_table.                              *)
(***************************************************************************)
Alphabet == {"a", "_", "."}

\* the characters of the class [a-zA-Z0-9] of the pattern
IsAlNum(ch) == ch \in {"a"}

\* directory names, as sequences of characters ("." and ".." name no
\* directory of their own)
Names ==
    {name \in UNION {[1..n -> Alphabet] : n \in 1..MaxNameLen} :
        \E i \in 1..Len(name) : name[i] # "."}

RESULTS_DIR == "results"

\* a * of glob matches any name that does not start with a dot
GlobStar(name) == name[1] # "."

\* glob('results/*/*/evaluation.json')
glob(fs) == {f \in fs : GlobStar(f[1]) /\ GlobStar(f[2])}

\* ([a-zA-Z0-9]+) followed by the / that ends the path segment
MatchesGroup(name) == \A i \in 1..Len(name) : IsAlNum(name[i])

\* pattern.match on 'results/<f[1]>/<f[2]>/evaluation.json'
PatternMatches(f) ==
    /\ RESULTS_DIR = "results"
    /\ MatchesGroup(f[1])
    /\ MatchesGroup(f[2])

RECURSIVE RowsOf(_)
RowsOf(fs) ==
    IF fs = {}
    THEN <<>>
    ELSE LET f == CHOOSE g \in fs : TRUE
         IN  <<[dataset |-> f[1], model |-> f[2]]>> \o RowsOf(fs \ {f})

get_results_table(fs) ==
    LET result_files == glob(fs)
    IN  IF \E f \in result_files : ~PatternMatches(f)
        THEN \* pattern.match returns None
             [called |-> TRUE, raised |-> "AttributeError", rows |-> <<>>]
        ELSE IF result_files = {}
        THEN \* the empty DataFrame has none of the selected columns
             [called |-> TRUE, raised |-> "KeyError", rows |-> <<>>]
        ELSE [called |-> TRUE, raised |-> "", rows |-> RowsOf(result_files)]

InitTable ==
    /\ OrchIdle
    /\ SaveIdle
    /\ DataIdle
    /\ resultFiles = {}
    /\ table = NoTable

\* save_evaluation_results writes results/<dataset>/<model>/evaluation.json
CreateResultFile(d, m) ==
    /\ UNCHANGED <<orchVars, saveVars, dataVars>>
    /\ Cardinality(resultFiles) < MaxFiles
    /\ <<d, m>> \notin resultFiles
    /\ resultFiles' = resultFiles \cup {<<d, m>>}
    /\ table' = NoTable

GetResultsTable ==
    /\ UNCHANGED <<orchVars, saveVars, dataVars>>
    /\ ~table.called
    /\ table' = get_results_table(resultFiles)
    /\ UNCHANGED resultFiles

NextTable ==
    \/ \E d \in Names, m \in Names : CreateResultFile(d, m)
    \/ GetResultsTable

SpecTable == InitTable /\ [][NextTable]_vars

\* C9: called on a results root that holds evaluation.json files,
\* get_results_table returns a table with exactly one row per file,
\* whatever the directory names, and the row's dataset and model are the
\* two directories of the file.
C9_OneRowPerEvaluationFile ==
    (table.called /\ resultFiles # {}) =>
        /\ table.raised = ""
        /\ Len(table.rows) = Cardinality(resultFiles)
        /\ \A f \in resultFiles :
              \E i \in 1..Len(table.rows) :
                  table.rows[i] = [dataset |-> f[1], model |-> f[2]]

====
